---- MODULE Spec2Model ----
(***************************************************************************)
(* Model of ophelia.py: the spreadsheet view-count updater.                *)
(*                                                                         *)
(* Text (URLs, status cells, exception messages) is a sequence of tokens,  *)
(* so that Python's substring test `x in s` is a contiguous-subsequence    *)
(* test.  A cell that holds nothing is the empty sequence; a numeric cell  *)
(* is a one-element sequence.  DataFrame positions are 1-based here (the   *)
(* code's df index 0 is row 1); column positions stay 0-based.             *)
(***************************************************************************)
EXTENDS Integers, Sequences, FiniteSets, TLC

VARIABLES
    file,             \* urls.xlsx on disk: [exists, ncols, rows]
    pc,               \* position of main(): idle, fetch, reconcile, save, highlight,
                      \* done (saved and highlighted), returned (nothing to do), aborted
    runs_left,        \* how many more times the program is started
    prev,             \* history: how the run before the current one ended (its last pc)
    df,               \* the DataFrame: [ncols, rows]
    skipped_indices,  \* rows the loader found red in column F
    valid_entries,    \* sequence of [idx, url]
    results,          \* list built by process_urls
    seen_ids,         \* set built by process_urls
    pre,              \* history: the file as it was when the current run started
    log,              \* history: what happened at each iteration of process_urls
    stats,            \* input of the view-count extraction (data["stats"])
    views_out         \* output of the view-count extraction

vars == <<file, pc, runs_left, prev, df, skipped_indices, valid_entries, results, seen_ids,
          pre, log, stats, views_out>>

----------------------------------------------------------------------------
(* Bounds *)

MaxRows == 2
MaxRunRows == 1
MaxRuns == 3
MaxCount == 8

----------------------------------------------------------------------------
(* Program constants *)

STATUS_COL == 9
VIEWS_COL == 10
F_COL == 5
\* 2025-01-23 and 2025-02-23 as day numbers of 2025
DATE_RANGE_START == 23
DATE_RANGE_END == 54

----------------------------------------------------------------------------
(* Text *)

\* Python's `sub in s`
Contains(s, sub) ==
    \E i \in 0..(Len(s) - Len(sub)) : SubSeq(s, i + 1, i + Len(sub)) = sub

\* str.lower() on the tokens that have an upper-case form
Lower(s) ==
    [i \in 1..Len(s) |-> CASE s[i] = "Video" -> "video"
                           [] s[i] = "Photo" -> "photo"
                           [] OTHER -> s[i]]

RECURSIVE Replace(_, _, _)
\* str.replace(old, new)
Replace(s, old, new) ==
    IF Len(s) < Len(old) THEN s
    ELSE IF SubSeq(s, 1, Len(old)) = old
         THEN new \o Replace(SubSeq(s, Len(old) + 1, Len(s)), old, new)
         ELSE <<s[1]>> \o Replace(Tail(s), old, new)

EmptyText == <<>>
DoubleSubmission == <<"Double submission">>
NotAContentSubmission == <<"Not a content submission">>
OutOfDateSubmission == <<"Out of date", " submission">>
MissingCreationTime == <<"Missing creation time">>
ErrorText(message) == <<"Error", ": ">> \o message
ProcessingErrorText(message) == <<"Processing error", ": ">> \o message

NotAContentURL == <<"Not a content URL">>
NoPostIDFound == <<"No post ID found">>
CannotEnlarge == <<"iloc cannot enlarge its target object">>

----------------------------------------------------------------------------
(* URLs *)

TikTokHost == <<"www", ".", "tiktok.com">>
ShortHost == <<"vt", ".", "tiktok.com">>
VideoUrl == [netloc |-> TikTokHost, path |-> <<"/", "@", "a", "/", "video", "/", "1">>]
PhotoUrl == [netloc |-> TikTokHost, path |-> <<"/", "@", "a", "/", "photo", "/", "2">>]
ProfileUrl == [netloc |-> TikTokHost, path |-> <<"/", "@", "a">>]
ShortUrl == [netloc |-> ShortHost, path |-> <<"/", "Z">>]
OtherUrl == [netloc |-> <<"example", ".", "com">>, path |-> <<"/", "video", "/", "1">>]
BlankUrl == [netloc |-> <<>>, path |-> <<>>]

UrlText(url) == url.netloc \o url.path

EndsWithTikTok(netloc) == Len(netloc) > 0 /\ netloc[Len(netloc)] = "tiktok.com"

is_tiktok_url(url) == EndsWithTikTok(url.netloc)

\* is_tiktok_content_url with the user-handle test taken alone: '@' in path
is_tiktok_content_url_AnyHandle(url) ==
    IF ~EndsWithTikTok(url.netloc) THEN FALSE
    ELSE LET path == Lower(url.path) IN
         \/ \E x \in {<<"/", "video", "/">>, <<"/", "photo", "/">>} : Contains(path, x)
         \/ Contains(path, <<"@">>)

is_tiktok_content_url(url) ==
    IF ~EndsWithTikTok(url.netloc) THEN FALSE
    ELSE LET path == Lower(url.path) IN
         \/ \E x \in {<<"/", "video", "/">>, <<"/", "photo", "/">>} : Contains(path, x)
         \/ /\ Contains(path, <<"@">>)
            /\ (Contains(path, <<"/", "video">>) \/ Contains(path, <<"/", "photo">>))

----------------------------------------------------------------------------
(* The external collaborators: the redirect service and the TikTok client *)

\* where the short link redirects to when the HEAD request succeeds
RedirectTarget(url) == VideoUrl

\* resolve_short_url: the final URL, or the URL itself when the request fails
resolve_short_url(url) == {RedirectTarget(url), url}

Absent == <<>>
NoId == ""
NoTs == [kind |-> "absent", t |-> 0]
BadTs == [kind |-> "bad", t |-> 0]
Epoch(t) == [kind |-> "epoch", t |-> t]
RawTimes == {NoTs, BadTs} \cup
            {Epoch(t) : t \in {DATE_RANGE_START - 1, DATE_RANGE_START,
                               DATE_RANGE_END, DATE_RANGE_END + 1}}
PhotoPosts == {"2"}
BatchStats == [playCount |-> <<500>>, viewCount |-> <<300>>]
ClientMessages == {<<"captcha">>, <<"Profile link">>}

Raise(message) ==
    [raise |-> TRUE, message |-> message, id |-> NoId, createTime |-> NoTs,
     imagePost |-> FALSE, stats |-> BatchStats]
Data(id, ts, image) ==
    [raise |-> FALSE, message |-> <<>>, id |-> id, createTime |-> ts,
     imagePost |-> image, stats |-> BatchStats]
NoResponse == Data(NoId, NoTs, FALSE)

\* the id in a /video/<id> path, NoId when the path has no such part
VideoIdOf(p) ==
    LET hits == {i \in 1..(Len(p) - 3) : SubSeq(p, i, i + 2) = <<"/", "video", "/">>}
    IN  IF hits = {} THEN NoId
        ELSE p[(CHOOSE i \in hits : \A j \in hits : i <= j) + 3]

\* api.video(url=...).info(): the endpoint knows a post by its /video/<id> path;
\* it raises, or answers with the post's data, with or without an id
ApiResponses(url) ==
    LET id == VideoIdOf(url.path) IN
    {Raise(m) : m \in ClientMessages} \cup
    (IF id = NoId THEN {}
     ELSE {Data(id, ts, id \in PhotoPosts) : ts \in RawTimes}
          \cup {Data(NoId, Epoch(DATE_RANGE_START), FALSE)})

----------------------------------------------------------------------------
(* get_tiktok_data *)

Truthy(v) == v # Absent /\ v[1] # 0

\* stats.get("playCount") or stats.get("viewCount") or 0
ViewsOf(st) ==
    IF Truthy(st.playCount) THEN st.playCount[1]
    ELSE IF Truthy(st.viewCount) THEN st.viewCount[1]
    ELSE 0

\* naive local creation time as a cell, empty when absent or not convertible
CreateTimeOf(ts) == IF ts.kind = "epoch" /\ ts.t # 0 THEN <<ts.t>> ELSE <<>>

Success(views, create_time, post_id, is_photo) ==
    [status |-> "none", message |-> <<>>, views |-> views, create_time |-> create_time,
     post_id |-> post_id, is_photo |-> is_photo]
Error(message) ==
    [status |-> "error", message |-> message, views |-> 0, create_time |-> <<>>,
     post_id |-> NoId, is_photo |-> FALSE]
Duplicate ==
    [status |-> "duplicate", message |-> <<>>, views |-> 0, create_time |-> <<>>,
     post_id |-> NoId, is_photo |-> FALSE]

IsShort(url) == Contains(UrlText(url), ShortHost)

modified_url(url) ==
    [url EXCEPT !.path = Replace(url.path, <<"/", "photo", "/">>, <<"/", "video", "/">>)]

\* the part of get_tiktok_data after the short link is resolved;
\* resp is what video.info() answers
get_tiktok_data(video_url, resp) ==
    IF ~is_tiktok_content_url(video_url) THEN Error(NotAContentURL)
    ELSE IF resp.raise THEN Error(resp.message)
    ELSE Success(ViewsOf(resp.stats), CreateTimeOf(resp.createTime), resp.id,
                 resp.imagePost)

\* ProcessOne without the test `data['post_id'] in seen_ids`
ProcessOne_NoSeenTest(data, seen) ==
    IF data.status # "none" THEN [res |-> data, seen |-> seen]
    ELSE IF data.post_id # NoId
         THEN [res |-> data, seen |-> seen \cup {data.post_id}]
         ELSE [res |-> Error(NoPostIDFound), seen |-> seen]

\* one iteration of the loop of process_urls: the appended result and the new seen_ids
ProcessOne(data, seen) ==
    IF data.status # "none" THEN [res |-> data, seen |-> seen]
    ELSE IF data.post_id # NoId
         THEN IF data.post_id \in seen
              THEN [res |-> Duplicate, seen |-> seen]
              ELSE [res |-> data, seen |-> seen \cup {data.post_id}]
         ELSE [res |-> Error(NoPostIDFound), seen |-> seen]

----------------------------------------------------------------------------
(* The reconciliation loop and the highlighter of main() *)

\* InRange with the ends of the window left out
InRange_Open(create_time) ==
    DATE_RANGE_START < create_time[1] /\ create_time[1] < DATE_RANGE_END

InRange(create_time) ==
    DATE_RANGE_START <= create_time[1] /\ create_time[1] <= DATE_RANGE_END

NonContentMessage(message) ==
    \E x \in {NotAContentURL, <<"Profile link">>} : Contains(message, x)

\* the body of the loop over results, on DataFrame d, for the row at row_idx
ApplyResult(d, row_idx, res) ==
    LET SetStatus(text) == [d EXCEPT !.rows[row_idx].status = text] IN
    IF res.status = "duplicate" THEN SetStatus(DoubleSubmission)
    ELSE IF res.status = "error"
         THEN IF NonContentMessage(res.message)
              THEN SetStatus(NotAContentSubmission)
              ELSE SetStatus(ErrorText(res.message))
    ELSE IF res.create_time # <<>>
         THEN IF InRange(res.create_time)
              THEN IF VIEWS_COL >= d.ncols
                   THEN SetStatus(ProcessingErrorText(CannotEnlarge))
                   ELSE [d EXCEPT !.rows[row_idx].views = <<res.views>>,
                                  !.rows[row_idx].status =
                                      IF ~res.is_photo THEN EmptyText ELSE @]
              ELSE SetStatus(OutOfDateSubmission)
         ELSE SetStatus(MissingCreationTime)

RECURSIVE ApplyResults_ByPosition(_, _, _, _)
\* ApplyResults with row_idx = i, the position in results, for valid_entries[i][0]
ApplyResults_ByPosition(d, entries, res, i) ==
    IF i > Len(res) THEN d
    ELSE ApplyResults_ByPosition(ApplyResult(d, i, res[i]), entries, res, i + 1)

RECURSIVE ApplyResults(_, _, _, _)
\* the loop `for i, res in enumerate(results)`, from position i on
ApplyResults(d, entries, res, i) ==
    IF i > Len(res) THEN d
    ELSE ApplyResults(ApplyResult(d, entries[i].idx, res[i]), entries, res, i + 1)

HighlightWords ==
    {DoubleSubmission, <<"Out of date">>, <<"Error">>, NotAContentSubmission}

\* NeedsHighlight with `status in [...]` for `x in status`
NeedsHighlight_Exact(status) ==
    status # EmptyText /\ status \in HighlightWords

\* the test of the highlighter on a status cell
NeedsHighlight(status) ==
    status # EmptyText /\ \E x \in HighlightWords : Contains(status, x)

\* the test of the loader on the fill of column F
is_red(row) == F_COL \in row.red

RECURSIVE Entries(_, _, _)
\* valid_entries: the rows from position i on that are neither skipped nor without a TikTok URL
Entries(rows, skipped, i) ==
    IF i > Len(rows) THEN <<>>
    ELSE IF i \in skipped THEN Entries(rows, skipped, i + 1)
    ELSE IF rows[i].url # BlankUrl /\ is_tiktok_url(rows[i].url)
         THEN <<[idx |-> i, url |-> rows[i].url]>> \o Entries(rows, skipped, i + 1)
         ELSE Entries(rows, skipped, i + 1)

----------------------------------------------------------------------------
(* State *)

NoFile == [exists |-> FALSE, ncols |-> 0, rows |-> <<>>]
NoFrame == [ncols |-> 0, rows |-> <<>>]
NoStats == [playCount |-> Absent, viewCount |-> Absent]

Urls == {VideoUrl, PhotoUrl, ProfileUrl, ShortUrl, OtherUrl}
OldViews == <<7>>
Fills == {{}, {F_COL}, 0..(STATUS_COL - 1)}
Notes == {EmptyText, OutOfDateSubmission}

\* rows of a sheet without Status and views columns
FreshRows == [url : Urls, status : {EmptyText}, views : {Absent}, red : Fills]
\* rows of a sheet with Status and views columns
FullRows == [url : Urls, status : Notes, views : {OldViews}, red : Fills]
\* the same rows without any fill
UnfilledFreshRows == {r \in FreshRows : r.red = {}}
UnfilledFullRows == {r \in FullRows : r.red = {}}

Start ==
    /\ pc = "idle"
    /\ prev = "idle"
    /\ df = NoFrame
    /\ skipped_indices = {}
    /\ valid_entries = <<>>
    /\ results = <<>>
    /\ seen_ids = {}
    /\ pre = file
    /\ log = <<>>
    /\ stats = NoStats
    /\ views_out = 0

\* one run of the program, on any sheet or none
Init ==
    /\ \/ file = NoFile
       \/ \E n \in 1..MaxRows :
              \/ \E r \in [1..n -> FreshRows] :
                     file = [exists |-> TRUE, ncols |-> STATUS_COL, rows |-> r]
              \/ \E r \in [1..n -> FullRows] :
                     file = [exists |-> TRUE, ncols |-> VIEWS_COL + 1, rows |-> r]
    /\ runs_left = 1
    /\ Start

\* MaxRuns runs of the program, one after the other, on a sheet of at most
\* MaxRunRows rows, none of them filled
InitRuns ==
    /\ \E n \in 1..MaxRunRows :
          \/ \E r \in [1..n -> UnfilledFreshRows] :
                 file = [exists |-> TRUE, ncols |-> STATUS_COL, rows |-> r]
          \/ \E r \in [1..n -> UnfilledFullRows] :
                 file = [exists |-> TRUE, ncols |-> VIEWS_COL + 1, rows |-> r]
    /\ runs_left = MaxRuns
    /\ Start

----------------------------------------------------------------------------
(* Actions *)

\* main() up to the start of process_urls
Load ==
    /\ pc \in {"idle", "done", "returned", "aborted"}
    /\ runs_left > 0
    /\ runs_left' = runs_left - 1
    /\ prev' = pc
    /\ pre' = file
    /\ results' = <<>>
    /\ seen_ids' = {}
    /\ log' = <<>>
    /\ IF ~file.exists
       THEN /\ pc' = "returned"
            /\ df' = NoFrame
            /\ skipped_indices' = {}
            /\ valid_entries' = <<>>
       ELSE LET skipped == {i \in 1..Len(file.rows) : is_red(file.rows[i])}
                frame == [ncols |-> IF file.ncols <= STATUS_COL THEN file.ncols + 1
                                    ELSE file.ncols,
                          rows |-> [i \in 1..Len(file.rows) |->
                                       [url |-> file.rows[i].url,
                                        status |-> file.rows[i].status,
                                        views |-> file.rows[i].views]]]
                entries == Entries(frame.rows, skipped, 1)
            IN  /\ skipped_indices' = skipped
                /\ df' = frame
                /\ valid_entries' = entries
                /\ pc' = IF entries = <<>> THEN "returned" ELSE "fetch"
    /\ UNCHANGED <<file, stats, views_out>>

\* one iteration of the loop of process_urls, get_tiktok_data included
FetchStep ==
    /\ pc = "fetch"
    /\ LET k == Len(results) + 1
           url == valid_entries[k].url
       IN  \E resolved \in (IF IsShort(url) THEN resolve_short_url(url) ELSE {url}) :
           \E resp \in (IF is_tiktok_content_url(resolved)
                        THEN ApiResponses(modified_url(resolved))
                        ELSE {NoResponse}) :
               LET data == get_tiktok_data(resolved, resp)
                   one == ProcessOne(data, seen_ids)
               IN  /\ results' = Append(results, one.res)
                   /\ seen_ids' = one.seen
                   /\ log' = Append(log, [row |-> valid_entries[k].idx,
                                          queried |-> is_tiktok_content_url(resolved),
                                          resp |-> resp])
                   /\ pc' = IF k = Len(valid_entries) THEN "reconcile" ELSE "fetch"
    /\ UNCHANGED <<file, runs_left, prev, df, skipped_indices, valid_entries, pre, stats, views_out>>

\* the loop of main() over results
Reconcile ==
    /\ pc = "reconcile"
    /\ df' = ApplyResults(df, valid_entries, results, 1)
    /\ pc' = "save"
    /\ UNCHANGED <<file, runs_left, prev, skipped_indices, valid_entries, results, seen_ids, pre, log,
                   stats, views_out>>

\* df.to_excel through pd.ExcelWriter: a new workbook, no cell has a fill
Save ==
    /\ pc = "save"
    /\ file' = [exists |-> TRUE, ncols |-> df.ncols,
                rows |-> [i \in 1..Len(df.rows) |->
                             [url |-> df.rows[i].url, status |-> df.rows[i].status,
                              views |-> df.rows[i].views, red |-> {}]]]
    /\ pc' = "highlight"
    /\ UNCHANGED <<runs_left, prev, df, skipped_indices, valid_entries, results, seen_ids, pre, log,
                   stats, views_out>>

\* load_workbook, the fill of row[0:9] of the rows with a failure status, wb.save
Highlight ==
    /\ pc = "highlight"
    /\ file' = [file EXCEPT !.rows =
                    [i \in 1..Len(file.rows) |->
                        [file.rows[i] EXCEPT !.red =
                            IF NeedsHighlight(file.rows[i].status)
                            THEN @ \cup 0..(STATUS_COL - 1) ELSE @]]]
    /\ pc' = "done"
    /\ UNCHANGED <<runs_left, prev, df, skipped_indices, valid_entries, results, seen_ids, pre, log,
                   stats, views_out>>

\* an exception that reaches the top level: the session cannot be created, the
\* task is interrupted, the workbook cannot be written or read back
Abort ==
    /\ pc \in {"fetch", "save", "highlight"}
    /\ pc' = "aborted"
    /\ df' = NoFrame
    /\ skipped_indices' = {}
    /\ valid_entries' = <<>>
    /\ results' = <<>>
    /\ seen_ids' = {}
    /\ log' = <<>>
    /\ UNCHANGED <<file, runs_left, prev, pre, stats, views_out>>

Next == Load \/ FetchStep \/ Reconcile \/ Save \/ Highlight \/ Abort

Spec == Init /\ [][Next]_vars

SpecRuns == InitRuns /\ [][Next]_vars

----------------------------------------------------------------------------
(* The view-count extraction of get_tiktok_data on its own *)

Counts == {Absent} \cup {<<n>> : n \in 0..MaxCount}

InitViews ==
    /\ file = NoFile
    /\ runs_left = 0
    /\ df = NoFrame
    /\ skipped_indices = {}
    /\ valid_entries = <<>>
    /\ results = <<>>
    /\ seen_ids = {}
    /\ pre = file
    /\ log = <<>>
    /\ prev = "idle"
    /\ pc = "views"
    /\ stats \in [playCount : Counts, viewCount : Counts]
    /\ views_out = 0

ExtractViews ==
    /\ pc = "views"
    /\ views_out' = ViewsOf(stats)
    /\ pc' = "viewed"
    /\ UNCHANGED <<file, runs_left, prev, df, skipped_indices, valid_entries, results,
                   seen_ids, pre, log, stats>>

NextViews == ExtractViews

SpecViews == InitViews /\ [][NextViews]_vars

----------------------------------------------------------------------------
(* Vocabulary of the properties *)

\* the positions of process_urls that have been handled
Handled == 1..Len(log)
RowOf(k) == valid_entries[k].idx
\* get_tiktok_data came back with the data of a post
FetchOk(k) == log[k].queried /\ ~log[k].resp.raise
\* ... and the post has an identifier
FetchedPost(k) == FetchOk(k) /\ log[k].resp.id # NoId
IsDuplicate(k) == results[k].status = "duplicate"
RawDay(k) == log[k].resp.createTime
HasDay(k) == RawDay(k).kind = "epoch"
DayInWindow(k) ==
    HasDay(k) /\ DATE_RANGE_START <= RawDay(k).t /\ RawDay(k).t <= DATE_RANGE_END
FinalStatus(k) == file.rows[RowOf(k)].status
FinalViews(k) == file.rows[RowOf(k)].views
OldStatus(k) == pre.rows[RowOf(k)].status
OldViewsOf(k) == pre.rows[RowOf(k)].views

----------------------------------------------------------------------------
(* C7 *)

\* C7: a failure of one row never stops the batch: while process_urls runs the
\* next iteration can always be taken, it ends with one result per URL, the k-th
\* result belongs to the row of the k-th valid entry, and after the run every
\* row that failed (rejected URL, unresolved short link, client exception,
\* unconvertible time, missing id) carries the status of its own failure.
C7_OneResultPerUrl ==
    /\ Len(log) = Len(results)
    /\ pc = "fetch" => Len(results) < Len(valid_entries) /\ ENABLED FetchStep
    /\ pc \in {"reconcile", "save", "highlight", "done"} =>
           Len(results) = Len(valid_entries)
    /\ \A k \in Handled : log[k].row = RowOf(k)
    /\ pc = "done" =>
         \A k \in Handled :
            /\ ~log[k].queried => FinalStatus(k) = NotAContentSubmission
            /\ log[k].resp.raise =>
                  FinalStatus(k) \in {ErrorText(log[k].resp.message), NotAContentSubmission}
            /\ FetchOk(k) /\ log[k].resp.id = NoId =>
                  FinalStatus(k) = ErrorText(NoPostIDFound)
            /\ FetchedPost(k) /\ RawDay(k).kind = "bad" =>
                  FinalStatus(k) \in {MissingCreationTime, DoubleSubmission}

\* a finished run in which a row fails with a client exception, which is its
\* status, and a later row is still fetched and gets its view count
C7_Witness ==
    /\ pc = "done"
    /\ \E j, k \in Handled :
          /\ j < k
          /\ log[j].resp.raise
          /\ FinalStatus(j) = ErrorText(<<"captcha">>)
          /\ FetchedPost(k)
          /\ FinalViews(k) = <<500>>

----------------------------------------------------------------------------
(* C8 *)

\* a TikTok URL that is not a short link and whose path names no video or photo
ProfileOnly(url) ==
    /\ is_tiktok_url(url)
    /\ ~IsShort(url)
    /\ \A i \in 1..Len(url.path) : Lower(url.path)[i] \notin {"video", "photo"}

\* C8: a row that is not skipped and whose URL is a profile-only TikTok URL is
\* never looked up with the client, and the run leaves it with the status
\* "Not a content submission" and with the result cell it had.
C8_ProfileRejected ==
    /\ \A k \in Handled : ProfileOnly(valid_entries[k].url) => ~log[k].queried
    /\ pc = "done" =>
          \A k \in Handled :
             ProfileOnly(valid_entries[k].url) =>
                /\ FinalStatus(k) = NotAContentSubmission
                /\ FinalViews(k) = OldViewsOf(k)

\* a finished run with a profile row that had a value and another status before
C8_Witness ==
    /\ pc = "done"
    /\ \E k \in Handled :
          /\ valid_entries[k].url = ProfileUrl
          /\ OldStatus(k) = OutOfDateSubmission
          /\ OldViewsOf(k) = OldViews
          /\ FinalStatus(k) = NotAContentSubmission

----------------------------------------------------------------------------
(* C1 *)

\* the post a URL stands for, NoId when it stands for none
PostOf(url) ==
    LET u == IF IsShort(url) THEN RedirectTarget(url) ELSE url
    IN  IF is_tiktok_content_url(u) THEN VideoIdOf(modified_url(u).path) ELSE NoId

\* C1 as stated: of two processed rows for the same post, the second ends with
\* "Double submission" and its result cell untouched, whether its own fetch
\* succeeded or failed.
C1_AsStated ==
    pc = "done" =>
       \A j, k \in Handled :
          (/\ j < k
           /\ PostOf(valid_entries[j].url) # NoId
           /\ PostOf(valid_entries[j].url) = PostOf(valid_entries[k].url))
          => /\ FinalStatus(k) = DoubleSubmission
             /\ FinalViews(k) = OldViewsOf(k)

\* C1 amended: of two processed rows whose fetches both returned the same post
\* identifier, the second ends with "Double submission" and its result cell
\* untouched, whatever else its fetch returned; a row whose own fetch returned
\* no post identifier is never given "Double submission".
C1_SecondIsDouble ==
    pc = "done" =>
       /\ \A j, k \in Handled :
             (/\ j < k
              /\ FetchedPost(j) /\ FetchedPost(k)
              /\ log[j].resp.id = log[k].resp.id)
             => /\ FinalStatus(k) = DoubleSubmission
                /\ FinalViews(k) = OldViewsOf(k)
       /\ \A k \in Handled : ~FetchedPost(k) => FinalStatus(k) # DoubleSubmission

\* a finished run with two rows of one post, the second fetched with a day
\* inside the window, marked double, its old value kept
C1_Witness ==
    /\ pc = "done"
    /\ \E j, k \in Handled :
          /\ j < k
          /\ FetchedPost(j) /\ FetchedPost(k)
          /\ log[j].resp.id = log[k].resp.id
          /\ DayInWindow(k)
          /\ FinalStatus(k) = DoubleSubmission
          /\ FinalViews(k) = OldViews

----------------------------------------------------------------------------
(* C2 *)

\* the result cells the run changed belong to rows fetched with a day in the window
WrittenOnlyInWindow ==
    \A i \in 1..Len(file.rows) :
       file.rows[i].views # pre.rows[i].views =>
          \E k \in Handled : RowOf(k) = i /\ DayInWindow(k)

\* C2 as stated: every processed row whose fetch succeeded with a creation time
\* outside the window ends with "Out of date submission" and its result cell
\* unwritten; result cells are written only for creation times in the window.
C2_AsStated ==
    pc = "done" =>
       /\ \A k \in Handled :
             FetchOk(k) /\ HasDay(k) /\ ~DayInWindow(k) =>
                /\ FinalStatus(k) = OutOfDateSubmission
                /\ FinalViews(k) = OldViewsOf(k)
       /\ WrittenOnlyInWindow

\* C2 amended: every processed row whose fetch returned a post identifier not
\* seen earlier in the run, with a creation time outside the window, ends with
\* "Out of date submission" and its result cell unwritten; result cells are
\* written only for creation times in the window; a time on either end of the
\* window is in it, and such a row is not given "Out of date submission".
C2_OutOfDate ==
    pc = "done" =>
       /\ \A k \in Handled :
             FetchedPost(k) /\ ~IsDuplicate(k) /\ HasDay(k) /\ ~DayInWindow(k) =>
                /\ FinalStatus(k) = OutOfDateSubmission
                /\ FinalViews(k) = OldViewsOf(k)
       /\ WrittenOnlyInWindow
       /\ \A k \in Handled :
             FetchedPost(k) /\ ~IsDuplicate(k) /\ DayInWindow(k) =>
                FinalStatus(k) \in {EmptyText, OldStatus(k),
                                    ProcessingErrorText(CannotEnlarge)}

\* a finished run with a row fetched the day after the window, out of date and
\* unwritten, and a row fetched on the last day of the window, written
C2_Witness ==
    /\ pc = "done"
    /\ \E j, k \in Handled :
          /\ FetchedPost(j) /\ ~IsDuplicate(j)
          /\ RawDay(j) = Epoch(DATE_RANGE_END + 1)
          /\ FinalStatus(j) = OutOfDateSubmission
          /\ OldStatus(j) = EmptyText
          /\ FinalViews(j) = OldViews
          /\ FetchedPost(k) /\ ~IsDuplicate(k)
          /\ RawDay(k) = Epoch(DATE_RANGE_END)
          /\ FinalViews(k) = <<500>>

----------------------------------------------------------------------------
(* C3 *)

\* C3: every processed row fetched with a post identifier not seen earlier and a
\* creation time in the window has the fetched view count in its result cell,
\* and its status is empty for a video and what it was for a photo post.
C3_AsStated ==
    pc = "done" =>
       \A k \in Handled :
          FetchedPost(k) /\ ~IsDuplicate(k) /\ DayInWindow(k) =>
             /\ FinalViews(k) = <<results[k].views>>
             /\ FinalStatus(k) = IF results[k].is_photo THEN OldStatus(k) ELSE EmptyText

----------------------------------------------------------------------------
(* C4 *)

\* C4: a row the loader skips is not fetched, and after the run its status, its
\* result cell and its fills are what they were.
C4_AsStated ==
    pc = "done" =>
       \A i \in skipped_indices :
          /\ \A k \in Handled : RowOf(k) # i
          /\ file.rows[i] = pre.rows[i]

----------------------------------------------------------------------------
(* C5 *)

\* every row with a failure status has its cells 0..8 filled
FullyHighlighted ==
    \A i \in 1..Len(file.rows) :
       (\E x \in {DoubleSubmission, <<"Out of date">>, <<"Error">>, NotAContentSubmission} :
           Contains(file.rows[i].status, x))
       => \A c \in 0..(STATUS_COL - 1) : c \in file.rows[i].red

\* C5: the file is not written before every row is fetched and reconciled, and
\* a run that aborts leaves the file as it was before the run or fully written
\* and highlighted.
C5_AsStated ==
    /\ pc \in {"fetch", "reconcile", "save"} => file = pre
    /\ pc = "aborted" => file = pre \/ FullyHighlighted

----------------------------------------------------------------------------
(* C6 *)

\* C6: every processed row ends in the first that applies of: duplicate,
\* non-content error, other error, no creation time, creation time out of the
\* window, success; and in no other status.
C6_AsStated ==
    pc = "done" =>
       \A k \in Handled :
          LET res == results[k] IN
          IF res.status = "duplicate" THEN FinalStatus(k) = DoubleSubmission
          ELSE IF res.status = "error" /\ NonContentMessage(res.message)
               THEN FinalStatus(k) = NotAContentSubmission
          ELSE IF res.status = "error" THEN FinalStatus(k) = ErrorText(res.message)
          ELSE IF res.create_time = <<>> THEN FinalStatus(k) = MissingCreationTime
          ELSE IF ~(DATE_RANGE_START <= res.create_time[1]
                    /\ res.create_time[1] <= DATE_RANGE_END)
               THEN FinalStatus(k) = OutOfDateSubmission
          ELSE FinalStatus(k) = IF res.is_photo THEN OldStatus(k) ELSE EmptyText

----------------------------------------------------------------------------
(* C9 *)

\* C9: the view count is the first present of playCount and viewCount, and 0
\* when both are absent; a present playCount, 0 included, wins.
C9_AsStated ==
    pc = "viewed" =>
       views_out = IF stats.playCount # Absent THEN stats.playCount[1]
                   ELSE IF stats.viewCount # Absent THEN stats.viewCount[1]
                   ELSE 0

----------------------------------------------------------------------------
(* C10 *)

HasFailureWord(status) ==
    \E x \in {DoubleSubmission, <<"Out of date">>, <<"Error">>, NotAContentSubmission} :
       Contains(status, x)

\* the loader of the current run has run and its findings are still in memory
Loaded == pc \in {"fetch", "reconcile", "save", "highlight", "done", "returned"}
RowsNow == 1..Len(pre.rows)
Fetched(i) == \E k \in Handled : log[k].row = i
\* the run wrote the fetched view count of position k
Succeeded(k) ==
    /\ results[k].status = "none"
    /\ DayInWindow(k)
    /\ FinalViews(k) = <<results[k].views>>
Unmarked(status) ==
    status \in {EmptyText, MissingCreationTime, ProcessingErrorText(CannotEnlarge)}

----------------------------------------------------------------------------
(* What holds of C3, C4, C5, C6 and C9 outside the failing cases *)

\* C3 and C6 on a frame that has the views column: both hold
C3_C6_WithViewsColumn ==
    df.ncols > VIEWS_COL => C3_AsStated /\ C6_AsStated

\* C4 without the fills: a skipped row is not fetched and keeps status and value
C4_StatusAndValueKept ==
    pc = "done" =>
       \A i \in skipped_indices :
          /\ \A k \in Handled : RowOf(k) # i
          /\ file.rows[i].status = pre.rows[i].status
          /\ file.rows[i].views = pre.rows[i].views

\* C5 up to the save: nothing is written before every row is reconciled, and an
\* aborted run that changed the file left it without any fill
C5_NoWriteBeforeSave ==
    /\ pc \in {"fetch", "reconcile", "save"} => file = pre
    /\ pc = "aborted" /\ file # pre =>
          \A i \in 1..Len(file.rows) : file.rows[i].red = {}

\* C9 when no present count is 0: the first present count wins
C9_NonZeroCounts ==
    pc = "viewed" /\ stats.playCount # <<0>> /\ stats.viewCount # <<0>> => C9_AsStated

====
